---- MODULE Spec2Model ----
(***************************************************************************)
(* Self-healing locator engine of the AI test-automation backend:          *)
(* LocatorHealerService (healLocator and its stages), the                  *)
(* LocatorChangeModel table operations and the approve / reject HTTP       *)
(* handlers of healing.controller.ts.                                      *)
(*                                                                         *)
(* Every await on the database or on the AI oracle is a point where other  *)
(* requests of the same Node process interleave, so each handler is split  *)
(* into one action per awaited statement that touches shared state.        *)
(* findById inside applyLocatorChange only tests the existence of a row    *)
(* and rows are never deleted, so it is folded into the following UPDATE.  *)
(* The database is assumed reachable; the only INSERT failure modelled is  *)
(* the CHECK constraint on locator_changes.confidence.                     *)
(***************************************************************************)
EXTENDS Integers, Sequences, FiniteSets, TLC

\* ------------------------------------------------------------------ bounds
NumHeal == 2        \* concurrent POST /trigger (healLocator) requests
NumReq  == 2        \* concurrent POST /changes/:id/approve|reject requests
NumTriage == 2      \* concurrent generateTriageReport requests
NumFailures == 2    \* rows of the failures table
MaxPreviousFailures == 7    \* largest params.previousFailures of a scorer call

Heals == 1..NumHeal
Reqs  == 1..NumReq

\* ------------------------------------------------------------- data model
Loc(t, v) == [type |-> t, value |-> v]
NoLocator == Loc("none", "")

IdUsername  == Loc("id", "username_input")
XpUsername  == Loc("xpath", "//EditText[@content-desc='Username']")
AccUsername == Loc("accessibilityId", "username")

Elements == { [page |-> "loginPage", element |-> "username"],
              [page |-> "loginPage", element |-> "password"] }

\* POST /trigger bodies: fallbackLocators (absent is the empty list) and
\* whether a screenshot is attached
Body(fb, shot) == [fallbackLocators |-> fb, screenshot |-> shot]
HealBodies == { Body(<<>>, FALSE), Body(<<>>, TRUE),
                Body(<<XpUsername, AccUsername>>, TRUE) }

\* appConfig.selfHealing.autoApplyThreshold: default 85, operator-configurable
DefaultThreshold == 85
Thresholds == {75, DefaultThreshold}

Sug(l, c) == [type |-> l.type, value |-> l.value, confidence |-> c]

\* what the AI oracle answers to suggestLocator in this run
OracleError == [ok |-> FALSE, suggestedLocators |-> <<>>]
OracleOk(s) == [ok |-> TRUE, suggestedLocators |-> s]
OracleResponses ==
    { OracleError,
      OracleOk(<<>>),
      OracleOk(<<Sug(AccUsername, 60)>>),
      OracleOk(<<Sug(AccUsername, 60), Sug(XpUsername, 85), Sug(IdUsername, 85)>>),
      OracleOk(<<Sug(XpUsername, 150)>>) }

\* what the running app can resolve: the code never asks ("In a real
\* implementation, this would actually try each locator against a running app")
AllLocators == {IdUsername, XpUsername, AccUsername}
ResolvableSets == { {}, {AccUsername}, {XpUsername, AccUsername}, AllLocators }

VARIABLES
    autoApplyThreshold, \* LocatorHealerService.autoApplyThreshold
    oracle,             \* the AI oracle's answer to suggestLocator (environment)
    resolvable,         \* the locators the running app resolves (environment)
    locators,           \* locators.json: element -> LocatorDefinition
    locator_changes,    \* table locator_changes; the row id is the index
    heal,               \* per healLocator request: position and locals
    req,                \* per approve / reject request: position and locals
    claude,             \* the AI oracle's answer to analyzeFailure (environment)
    failures,           \* table failures; the row id is the index
    triage_reports,     \* table triage_reports; the row id is the index
    triage,             \* per generateTriageReport request: position and locals
    batch,              \* generateForUnanalyzedFailures: position and locals
    analyzerCall,       \* one call of FailureAnalyzerService.analyzeFailure
    scorer              \* two calls of calculateHealingConfidence

healVars == <<autoApplyThreshold, oracle, resolvable, locators, locator_changes,
              heal, req>>
triageVars == <<claude, failures, triage_reports, triage, batch>>
pureVars == <<analyzerCall, scorer>>

vars == <<healVars, triageVars, pureVars>>

\* HealingResult of LocatorHealer.service.ts; changeId 0 is "undefined"
HealingResult(ok, loc, conf, strat) ==
    [success |-> ok, newLocator |-> loc, confidence |-> conf,
     strategy |-> strat, changeId |-> 0]

NoResult == HealingResult(FALSE, NoLocator, 0, "pending")

\* ------------------------------------------------ LocatorChangeModel (SQL)
ChangeExists(id) == id \in DOMAIN locator_changes

\* CHECK (confidence >= 0 AND confidence <= 100) of the locator_changes table
ConfidenceCheck(c) == c >= 0 /\ c <= 100

Create(data) ==
    Append(locator_changes,
           [oldLocator |-> data.oldLocator, newLocator |-> data.newLocator,
            healingStrategy |-> data.healingStrategy,
            confidence |-> data.confidence, status |-> data.status,
            appliedAt |-> FALSE, success |-> "null"])

Approve(id) ==
    [locator_changes EXCEPT ![id].status = "approved", ![id].appliedAt = TRUE]

Reject(id) ==
    [locator_changes EXCEPT ![id].status = "rejected"]

\* a wrong status literal in the UPDATE of markAutoApplied
MarkAutoApplied_WrongLiteral(id, ok) ==
    [locator_changes EXCEPT ![id].status = "pending_approval",
                            ![id].appliedAt = TRUE,
                            ![id].success = IF ok THEN "true" ELSE "false"]

MarkAutoApplied(id, ok) ==
    [locator_changes EXCEPT ![id].status = "auto_applied",
                            ![id].appliedAt = TRUE,
                            ![id].success = IF ok THEN "true" ELSE "false"]

CountStatus(s) ==
    Cardinality({id \in DOMAIN locator_changes : locator_changes[id].status = s})

getStatistics ==
    [total            |-> Len(locator_changes),
     autoApplied      |-> CountStatus("auto_applied"),
     manuallyApproved |-> CountStatus("approved"),
     rejected         |-> CountStatus("rejected"),
     pending          |-> CountStatus("pending_approval")]

\* ---------------------------------------------------- LocatorHealerService
\* the stage without its simulated success: no fallback is ever reported to work
tryFallbackChain_NeverWorks(fallbacks) ==
    HealingResult(FALSE, NoLocator, 0, "fallback_chain")

\* "we simulate success and return the first fallback"
tryFallbackChain(fallbacks) ==
    IF Len(fallbacks) > 0
    THEN HealingResult(TRUE, fallbacks[1], 75, "fallback_chain")
    ELSE HealingResult(FALSE, NoLocator, 0, "fallback_chain")

\* FailureAnalyzerService.suggestLocators: any oracle failure yields no suggestion
suggestLocators(o) == IF o.ok THEN o.suggestedLocators ELSE <<>>

\* suggestedLocators.reduce((best, cur) => cur.confidence > best.confidence ? cur : best)
RECURSIVE BestOf(_, _, _)
BestOf(s, i, best) ==
    IF i > Len(s) THEN best
    ELSE BestOf(s, i + 1, IF s[i].confidence > best.confidence THEN s[i] ELSE best)

bestSuggestion(s) == BestOf(s, 2, s[1])

tryAISuggestion(o) ==
    LET s == suggestLocators(o) IN
    IF Len(s) > 0
    THEN LET b == bestSuggestion(s) IN
         HealingResult(TRUE, Loc(b.type, b.value), b.confidence, "ai_suggested")
    ELSE HealingResult(FALSE, NoLocator, 0, "ai_suggested")

\* the comparison written > instead of >=
healingStatus_Strict(confidence, threshold) ==
    IF confidence > threshold THEN "auto_applied" ELSE "pending_approval"

\* recordHealingAttempt: the status the new row is created with
healingStatus(confidence, threshold) ==
    IF confidence >= threshold THEN "auto_applied" ELSE "pending_approval"

\* the failed AI result returned in place of the final literal
AllFailed_AIResult == HealingResult(FALSE, NoLocator, 0, "ai_suggested")

AllFailed == HealingResult(FALSE, NoLocator, 0, "none")

\* FailureAnalyzerService.calculateHealingConfidence. elementStability is given
\* in hundredths (85 is 0.85) and the score is returned in tenths of a point
\* (885 is 88.5): the code adds elementStability * 10 without rounding.
\* healLocator never calls it.
StrategyBonus(strategy) ==
    CASE strategy = "ai_suggested"     -> 30
      [] strategy = "similarity_match" -> 20
      [] strategy = "fallback_chain"   -> 25
      [] OTHER                         -> 0

LocatorTypeBonus(locatorType) ==
    CASE locatorType \in {"id", "accessibilityId"} -> 15
      [] locatorType = "xpath"                     -> 5
      [] OTHER                                     -> 0

PreviousFailuresPenalty(previousFailures) ==
    IF previousFailures > 5 THEN 20
    ELSE IF previousFailures > 2 THEN 10 ELSE 0

\* Math.max(lo, Math.min(hi, x)) without its effect
Clamp_None(lo, x, hi) == x

Clamp(lo, x, hi) == IF x < lo THEN lo ELSE IF x > hi THEN hi ELSE x

\* the stability adjustment subtracted instead of added
calculateHealingConfidence_MinusStability(strategy, locatorType, previousFailures, elementStability) ==
    Clamp(0,
          10 * (50 + StrategyBonus(strategy) + LocatorTypeBonus(locatorType)
                   - PreviousFailuresPenalty(previousFailures))
             - elementStability,
          1000)

calculateHealingConfidence(strategy, locatorType, previousFailures, elementStability) ==
    Clamp(0,
          10 * (50 + StrategyBonus(strategy) + LocatorTypeBonus(locatorType)
                   - PreviousFailuresPenalty(previousFailures))
             + elementStability,
          1000)

\* LocatorHealerService.updateLocatorsFile: the new primary replaces the old one,
\* which goes to the head of the fallbacks, and one healing record is appended.
\* Private and called from nowhere.
updateLocatorsFile(defs, el, newPrimary, oldPrimary) ==
    IF el \in DOMAIN defs
    THEN [defs EXCEPT ![el] =
            [primary |-> newPrimary,
             fallbacks |-> <<oldPrimary>> \o defs[el].fallbacks,
             healingHistory |-> Append(defs[el].healingHistory,
                                       [oldLocator |-> oldPrimary,
                                        newLocator |-> newPrimary])]]
    ELSE defs

InFlight(q) == heal[q].pc \in {"record", "apply"}

\* POST /trigger -> healLocator up to its first database statement: strategy 1
\* (fallback chain, no I/O) and, when it yields nothing and a screenshot is
\* attached, strategy 2 (the awaited oracle call, which reads no shared state)
healLocator(p) ==
    /\ heal[p].pc = "idle"
    /\ \A q \in Heals : q < p => heal[q].pc # "idle"
    /\ \E el \in Elements, body \in HealBodies :
         LET fb   == body.fallbackLocators
             shot == body.screenshot
             fr   == tryFallbackChain(fb)
             ar   == tryAISuggestion(oracle)
             base == [heal[p] EXCEPT !.elementPath = el,
                                     !.failedLocator = locators[el].primary,
                                     !.fallbackLocators = fb,
                                     !.screenshot = shot]
         IN  heal' = [heal EXCEPT ![p] =
                 IF Len(fb) > 0 /\ fr.success
                 THEN [base EXCEPT !.pc = "record", !.attempt = fr]
                 ELSE IF shot /\ ar.success
                      THEN [base EXCEPT !.pc = "record", !.attempt = ar,
                                        !.aiConsulted = TRUE]
                      ELSE [base EXCEPT !.pc = "done", !.outcome = "returned",
                                        !.result = AllFailed,
                                        !.aiConsulted = shot]]
    /\ UNCHANGED <<autoApplyThreshold, oracle, resolvable, locators, locator_changes, req,
                   triageVars, pureVars>>

\* recordHealingAttempt up to and including the awaited INSERT
recordHealingAttempt(p) ==
    /\ heal[p].pc = "record"
    /\ LET a      == heal[p].attempt
           status == healingStatus(a.confidence, autoApplyThreshold)
           id     == Len(locator_changes) + 1
       IN  IF ~ConfidenceCheck(a.confidence)
           THEN \* the INSERT is rejected; the exception leaves healLocator
                /\ heal' = [heal EXCEPT ![p].pc = "done", ![p].outcome = "thrown"]
                /\ UNCHANGED locator_changes
           ELSE /\ locator_changes' =
                      Create([oldLocator |-> heal[p].failedLocator,
                              newLocator |-> a.newLocator,
                              healingStrategy |-> a.strategy,
                              confidence |-> a.confidence,
                              status |-> status])
                /\ heal' = [heal EXCEPT ![p] =
                      IF status = "auto_applied"
                      THEN [@ EXCEPT !.pc = "apply", !.attempt.changeId = id]
                      ELSE [@ EXCEPT !.pc = "done", !.outcome = "returned",
                                     !.attempt.changeId = id,
                                     !.result = [a EXCEPT !.changeId = id]]]
    /\ UNCHANGED <<autoApplyThreshold, oracle, resolvable, locators, req,
                   triageVars, pureVars>>

\* applyLocatorChange(changeId): findById, then markAutoApplied(changeId, true);
\* the locators file is not touched ("For now, we'll just mark it as applied")
applyLocatorChange(changeId) ==
    IF ChangeExists(changeId)
    THEN MarkAutoApplied(changeId, TRUE)
    ELSE locator_changes

\* the tail of recordHealingAttempt for an auto-applied change, then the return
healApply(p) ==
    /\ heal[p].pc = "apply"
    /\ locator_changes' = applyLocatorChange(heal[p].attempt.changeId)
    /\ heal' = [heal EXCEPT ![p].pc = "done", ![p].outcome = "returned",
                            ![p].result = heal[p].attempt]
    /\ UNCHANGED <<autoApplyThreshold, oracle, resolvable, locators, req,
                   triageVars, pureVars>>

\* ------------------------------------------------------ healing.controller
\* the :id of a request: a row of the table, or one id that names no row
ChangeIds == 1..(Len(locator_changes) + 1)

\* requests are anonymous: they are numbered in the order they arrive
Arrives(r) == req[r].pc = "idle" /\ \A q \in Reqs : q < r => req[q].pc # "idle"

\* the findById and the status check that open both handlers
Admit(r, kind, id) ==
    IF ~ChangeExists(id)
    THEN [req[r] EXCEPT !.pc = "done", !.kind = kind, !.id = id, !.resp = 404]
    ELSE IF locator_changes[id].status # "pending_approval"
         THEN [req[r] EXCEPT !.pc = "done", !.kind = kind, !.id = id, !.resp = 400]
         ELSE [req[r] EXCEPT !.pc = "update", !.kind = kind, !.id = id]

approveLocatorChange(r) ==
    /\ Arrives(r)
    /\ \E id \in ChangeIds : req' = [req EXCEPT ![r] = Admit(r, "approve", id)]
    /\ UNCHANGED <<autoApplyThreshold, oracle, resolvable, locators, locator_changes, heal,
                   triageVars, pureVars>>

rejectLocatorChange(r) ==
    /\ Arrives(r)
    /\ \E id \in ChangeIds : req' = [req EXCEPT ![r] = Admit(r, "reject", id)]
    /\ UNCHANGED <<autoApplyThreshold, oracle, resolvable, locators, locator_changes, heal,
                   triageVars, pureVars>>

\* locatorHealer.approveChange: the awaited LocatorChangeModel.approve
approveChange(r) ==
    /\ req[r].pc = "update"
    /\ req[r].kind = "approve"
    /\ locator_changes' = Approve(req[r].id)
    /\ req' = [req EXCEPT ![r].pc = "apply"]
    /\ UNCHANGED <<autoApplyThreshold, oracle, resolvable, locators, heal,
                   triageVars, pureVars>>

\* ... then applyLocatorChange and the 200 response of approveLocatorChange
approveApply(r) ==
    /\ req[r].pc = "apply"
    /\ locator_changes' = applyLocatorChange(req[r].id)
    /\ req' = [req EXCEPT ![r].pc = "done", ![r].resp = 200]
    /\ UNCHANGED <<autoApplyThreshold, oracle, resolvable, locators, heal,
                   triageVars, pureVars>>

\* locatorHealer.rejectChange and the 200 response of rejectLocatorChange
rejectChange(r) ==
    /\ req[r].pc = "update"
    /\ req[r].kind = "reject"
    /\ locator_changes' = Reject(req[r].id)
    /\ req' = [req EXCEPT ![r].pc = "done", ![r].resp = 200]
    /\ UNCHANGED <<autoApplyThreshold, oracle, resolvable, locators, heal,
                   triageVars, pureVars>>

\* --------------------------------------------------- FailureAnalyzerService
\* A string is the sequence of its characters, so that toLowerCase and
\* includes are computed and not assumed.
UpperCase == <<"A", "B", "C", "D", "E", "F", "G", "H", "I", "J", "K", "L", "M",
               "N", "O", "P", "Q", "R", "S", "T", "U", "V", "W", "X", "Y", "Z">>
LowerCase == <<"a", "b", "c", "d", "e", "f", "g", "h", "i", "j", "k", "l", "m",
               "n", "o", "p", "q", "r", "s", "t", "u", "v", "w", "x", "y", "z">>

toLowerCase(s) ==
    [i \in 1..Len(s) |->
        IF \E k \in 1..Len(UpperCase) : UpperCase[k] = s[i]
        THEN LowerCase[CHOOSE k \in 1..Len(UpperCase) : UpperCase[k] = s[i]]
        ELSE s[i]]

\* String.prototype.includes: t occurs in s as a contiguous run
includes(s, t) ==
    \E k \in 0..(Len(s) - Len(t)) : \A j \in 1..Len(t) : s[k + j] = t[j]

IncludesAny(s, phrases) == \E t \in phrases : includes(s, t)

LocatorPhrases ==
      \* "element not found"
    { <<"e", "l", "e", "m", "e", "n", "t", " ", "n", "o", "t", " ", "f", "o", "u", "n", "d">>,
      \* "no such element"
      <<"n", "o", " ", "s", "u", "c", "h", " ", "e", "l", "e", "m", "e", "n", "t">>,
      \* "could not find"
      <<"c", "o", "u", "l", "d", " ", "n", "o", "t", " ", "f", "i", "n", "d">> }

TimeoutPhrases ==
      \* "timeout"
    { <<"t", "i", "m", "e", "o", "u", "t">>,
      \* "timed out"
      <<"t", "i", "m", "e", "d", " ", "o", "u", "t">>,
      \* "wait"
      <<"w", "a", "i", "t">> }

NetworkPhrases ==
      \* "network"
    { <<"n", "e", "t", "w", "o", "r", "k">>,
      \* "connection"
      <<"c", "o", "n", "n", "e", "c", "t", "i", "o", "n">>,
      \* "econnrefused"
      <<"e", "c", "o", "n", "n", "r", "e", "f", "u", "s", "e", "d">> }

AssertionPhrases ==
      \* "assertion"
    { <<"a", "s", "s", "e", "r", "t", "i", "o", "n">>,
      \* "expected"
      <<"e", "x", "p", "e", "c", "t", "e", "d">>,
      \* "actual"
      <<"a", "c", "t", "u", "a", "l">> }

\* FailureContext.errorMessage and .stackTrace of the calls
ErrorMessages ==
      \* "Element not found"
    { <<"E", "l", "e", "m", "e", "n", "t", " ", "n", "o", "t", " ", "f", "o", "u", "n", "d">>,
      \* "Timed out: no such element"
      <<"T", "i", "m", "e", "d", " ", "o", "u", "t", ":", " ", "n", "o", " ", "s", "u", "c", "h", " ", "e", "l", "e", "m", "e", "n", "t">>,
      \* "Connection timeout"
      <<"C", "o", "n", "n", "e", "c", "t", "i", "o", "n", " ", "t", "i", "m", "e", "o", "u", "t">>,
      \* "ECONNREFUSED"
      <<"E", "C", "O", "N", "N", "R", "E", "F", "U", "S", "E", "D">>,
      \* "Expected true"
      <<"E", "x", "p", "e", "c", "t", "e", "d", " ", "t", "r", "u", "e">>,
      \* "NullPointerException"
      <<"N", "u", "l", "l", "P", "o", "i", "n", "t", "e", "r", "E", "x", "c", "e", "p", "t", "i", "o", "n">>,
      \* ""
      <<>> }

StackTraces ==
      \* ""
    { <<>>,
      \* "at find: no such element"
      <<"a", "t", " ", "f", "i", "n", "d", ":", " ", "n", "o", " ", "s", "u", "c", "h", " ", "e", "l", "e", "m", "e", "n", "t">> }

Contexts == [errorMessage : ErrorMessages, stackTrace : StackTraces]

\* enum FailureCategory: its five members
FailureCategory ==
    {"actual_bug", "flaky_locator", "timing_issue", "environmental_issue",
     "test_data_issue"}

\* the JavaScript value undefined where a category is expected
Undefined == "undefined"

\* FailureCategory.UNKNOWN: the enum declares no such member, so the property
\* read yields undefined
UNKNOWN == Undefined

\* a JSON number, or an absent property
Num(n) == [kind |-> "number", v |-> n]
Absent == [kind |-> "undefined", v |-> 0]

\* a JSON array, or any other value
Arr(items) == [isArray |-> TRUE, items |-> items]
NotArray == [isArray |-> FALSE, items |-> <<>>]

\* the object the oracle's JSON parses to
Analysis(cat, conf, ev, act) ==
    [category |-> cat, confidence |-> conf, reasoning |-> "oracle reasoning",
     evidencePoints |-> ev, suggestedActions |-> act]

WellFormed(cat, n) ==
    Analysis(cat, Num(n), Arr(<<"evidence">>), Arr(<<"action">>))

\* ClaudeResponse: the API call fails, or its text holds no JSON, or the JSON
\* is null, or it is an object
ClaudeDown  == [ok |-> FALSE, content |-> "none", json |-> WellFormed(Undefined, 0)]
ClaudeProse == [ok |-> TRUE, content |-> "prose", json |-> WellFormed(Undefined, 0)]
ClaudeNull  == [ok |-> TRUE, content |-> "null", json |-> WellFormed(Undefined, 0)]
ClaudeJson(a) == [ok |-> TRUE, content |-> "object", json |-> a]

WellFormedAnalyses ==
    { WellFormed("flaky_locator", 95), WellFormed("actual_bug", 73),
      WellFormed("environmental_issue", 70), WellFormed("timing_issue", 69),
      WellFormed("test_data_issue", 40), WellFormed("actual_bug", 100),
      WellFormed("flaky_locator", 0) }

MalformedAnalyses ==
    { WellFormed("FLAKY_LOCATOR", 90),
      WellFormed(Undefined, 90),
      Analysis("timing_issue", Absent, Arr(<<"evidence">>), Arr(<<"action">>)),
      WellFormed("actual_bug", 150),
      WellFormed("actual_bug", 0 - 5),
      Analysis("flaky_locator", Num(90), NotArray, Arr(<<"action">>)),
      Analysis("flaky_locator", Num(90), Arr(<<"evidence">>), NotArray) }

ClaudeResponses ==
    {ClaudeDown, ClaudeProse, ClaudeNull}
    \cup {ClaudeJson(a) : a \in WellFormedAnalyses \cup MalformedAnalyses}

\* categoryProbabilities[category] without the || 50
BaseProbability_DefaultZero(category) ==
    CASE category = "actual_bug"          -> 90
      [] category = "flaky_locator"       -> 10
      [] category = "timing_issue"        -> 30
      [] category = "environmental_issue" -> 5
      [] category = "test_data_issue"     -> 20
      [] OTHER                            -> 0

\* categoryProbabilities[category] || 50
BaseProbability(category) ==
    CASE category = "actual_bug"          -> 90
      [] category = "flaky_locator"       -> 10
      [] category = "timing_issue"        -> 30
      [] category = "environmental_issue" -> 5
      [] category = "test_data_issue"     -> 20
      [] OTHER                            -> 50

\* calculateBugProbability, in tenths of a point: ((confidence - 50) / 50) * 20
\* is 0.4 per point of confidence and is not rounded
calculateBugProbability(category, confidence) ==
    Clamp(0, 10 * BaseProbability(category) + 4 * (confidence - 50), 1000)

\* analysis.confidence || 50: absent and 0 are both falsy
ConfidenceOrDefault(c) == IF c.kind = "number" /\ c.v # 0 THEN c.v ELSE 50

normalizeAnalysis(analysis) ==
    LET category   == IF analysis.category \in FailureCategory
                      THEN analysis.category ELSE UNKNOWN
        confidence == Clamp(0, ConfidenceOrDefault(analysis.confidence), 100)
    IN  [category |-> category,
         confidence |-> confidence,
         reasoning |-> IF analysis.reasoning # "" THEN analysis.reasoning
                       ELSE "No reasoning provided",
         evidencePoints |-> IF analysis.evidencePoints.isArray
                            THEN analysis.evidencePoints.items ELSE <<>>,
         suggestedActions |-> IF analysis.suggestedActions.isArray
                              THEN analysis.suggestedActions.items ELSE <<>>,
         bugProbability |-> calculateBugProbability(category, confidence)]

FallbackResult(category, reasoning, evidencePoints) ==
    [category |-> category,
     confidence |-> 50,
     reasoning |-> reasoning,
     evidencePoints |-> evidencePoints,
     suggestedActions |-> <<"Review error message and stack trace",
                            "Check recent code changes",
                            "Verify test environment">>,
     bugProbability |-> calculateBugProbability(category, 50)]

\* the timeout rule tested before the locator rule
getFallbackAnalysis_TimeoutFirst(context) ==
    LET errorLower == toLowerCase(context.errorMessage)
    IN  IF IncludesAny(errorLower, TimeoutPhrases)
        THEN FallbackResult("timing_issue",
                            "Error message indicates timeout",
                            <<"Timeout error detected">>)
        ELSE IF IncludesAny(errorLower, LocatorPhrases)
        THEN FallbackResult("flaky_locator",
                            "Error message indicates element not found",
                            <<"Element not found error detected">>)
        ELSE IF IncludesAny(errorLower, NetworkPhrases)
        THEN FallbackResult("environmental_issue",
                            "Error message indicates network/connection issue",
                            <<"Network error detected">>)
        ELSE IF IncludesAny(errorLower, AssertionPhrases)
        THEN FallbackResult("actual_bug",
                            "Assertion failure likely indicates a bug",
                            <<"Assertion failure detected">>)
        ELSE FallbackResult(UNKNOWN, "Fallback rule-based analysis", <<>>)

\* stackLower is computed and never read
getFallbackAnalysis(context) ==
    LET errorLower == toLowerCase(context.errorMessage)
        stackLower == toLowerCase(context.stackTrace)
    IN  IF IncludesAny(errorLower, LocatorPhrases)
        THEN FallbackResult("flaky_locator",
                            "Error message indicates element not found",
                            <<"Element not found error detected">>)
        ELSE IF IncludesAny(errorLower, TimeoutPhrases)
        THEN FallbackResult("timing_issue",
                            "Error message indicates timeout",
                            <<"Timeout error detected">>)
        ELSE IF IncludesAny(errorLower, NetworkPhrases)
        THEN FallbackResult("environmental_issue",
                            "Error message indicates network/connection issue",
                            <<"Network error detected">>)
        ELSE IF IncludesAny(errorLower, AssertionPhrases)
        THEN FallbackResult("actual_bug",
                            "Assertion failure likely indicates a bug",
                            <<"Assertion failure detected">>)
        ELSE FallbackResult(UNKNOWN, "Fallback rule-based analysis", <<>>)

\* sendMessage or parseJsonResponse throws, or normalizeAnalysis reads a
\* property of null: all are caught by analyzeFailure
OracleCallFails(response) == ~response.ok \/ response.content # "object"

analyzeFailure(context, response) ==
    IF OracleCallFails(response)
    THEN getFallbackAnalysis(context)
    ELSE normalizeAnalysis(response.json)

NoAnalysis == FallbackResult(Undefined, "", <<>>)

IdleAnalyzer ==
    analyzerCall = [pc |-> "idle",
                    context |-> [errorMessage |-> <<>>, stackTrace |-> <<>>],
                    response |-> ClaudeDown, result |-> NoAnalysis]

\* one call of analyzeFailure, from its argument and the oracle's answer to
\* the value it returns
analyzeFailureCall ==
    /\ \E context \in Contexts, response \in ClaudeResponses :
          analyzerCall' = [pc |-> "done", context |-> context,
                           response |-> response,
                           result |-> analyzeFailure(context, response)]
    /\ UNCHANGED <<healVars, triageVars, scorer>>

\* -------------------------------------------------- TriageGeneratorService
Triages == 1..NumTriage
FailureIds == 1..NumFailures

\* the rows of the failures table when the requests start: none analyzed
FailureRows ==
    [errorMessage : { <<"E", "l", "e", "m", "e", "n", "t", " ",
                        "n", "o", "t", " ", "f", "o", "u", "n", "d">>,
                      <<"N", "u", "l", "l", "P", "o", "i", "n", "t", "e", "r",
                        "E", "x", "c", "e", "p", "t", "i", "o", "n">> },
     stackTrace : {<<>>},
     analyzed : {FALSE}]

\* what the oracle answers to analyzeFailure in this run
TriageOracle ==
    { ClaudeDown,
      ClaudeJson(WellFormed("flaky_locator", 95)),
      ClaudeJson(WellFormed("actual_bug", 73)),
      ClaudeJson(WellFormed("FLAKY_LOCATOR", 90)) }

\* TriageReportModel.findByFailureId: the latest report of the failure (0: none)
findByFailureId(failureId) ==
    LET ids == {id \in DOMAIN triage_reports :
                    triage_reports[id].failureId = failureId}
    IN  IF ids = {} THEN 0 ELSE CHOOSE id \in ids : \A other \in ids : other <= id

\* the column constraints of triage_reports: category NOT NULL and one of the
\* five values, confidence and bug_probability INTEGER within 0..100
\* (bugProbability is in tenths here)
InsertAccepted(row) ==
    /\ row.category \in FailureCategory
    /\ row.confidence >= 0 /\ row.confidence <= 100
    /\ row.bugProbability % 10 = 0
    /\ row.bugProbability >= 0 /\ row.bugProbability <= 1000

\* the failure's row as the FailureContext of the call
ContextOf(failureId) ==
    [errorMessage |-> failures[failureId].errorMessage,
     stackTrace |-> failures[failureId].stackTrace]

InitTriageReq ==
    [pc |-> "idle", failureId |-> 0, analysis |-> NoAnalysis, reportId |-> 0,
     outcome |-> "none"]

\* the requests are numbered in the order they arrive
TriageArrives(t) ==
    triage[t].pc = "idle" /\ \A q \in Triages : q < t => triage[q].pc # "idle"

\* generateTriageReport up to its INSERT: findByFailureId, then the awaited
\* analyzeFailure, which reads no shared state
generateTriageReport(t) ==
    /\ TriageArrives(t)
    /\ \E failureId \in FailureIds :
         LET existing == findByFailureId(failureId) IN
         triage' = [triage EXCEPT ![t] =
             IF existing # 0
             THEN [@ EXCEPT !.pc = "done", !.failureId = failureId,
                            !.reportId = existing, !.outcome = "returned"]
             ELSE [@ EXCEPT !.pc = "create", !.failureId = failureId,
                            !.analysis = analyzeFailure(ContextOf(failureId),
                                                        claude)]]
    /\ UNCHANGED <<claude, failures, triage_reports, batch, healVars, pureVars>>

\* TriageReportModel.create; a rejected INSERT is logged and thrown again
createReport(t) ==
    /\ triage[t].pc = "create"
    /\ LET a   == triage[t].analysis
           row == [failureId |-> triage[t].failureId, category |-> a.category,
                   confidence |-> a.confidence,
                   bugProbability |-> a.bugProbability]
       IN  IF InsertAccepted(row)
           THEN /\ triage_reports' = Append(triage_reports, row)
                /\ triage' = [triage EXCEPT ![t].pc = "mark",
                                            ![t].reportId = Len(triage_reports) + 1]
           ELSE /\ triage' = [triage EXCEPT ![t].pc = "done",
                                            ![t].outcome = "thrown"]
                /\ UNCHANGED triage_reports
    /\ UNCHANGED <<claude, failures, batch, healVars, pureVars>>

\* FailureModel.markAsAnalyzed and the return of the report id
markAsAnalyzed(t) ==
    /\ triage[t].pc = "mark"
    /\ failures' = [failures EXCEPT ![triage[t].failureId].analyzed = TRUE]
    /\ triage' = [triage EXCEPT ![t].pc = "done", ![t].outcome = "returned"]
    /\ UNCHANGED <<claude, triage_reports, batch, healVars, pureVars>>

\* generateForUnanalyzedFailures(limit) between two calls
IdleBatch == [pc |-> "idle", limit |-> 1, queue |-> <<>>]

\* FailureModel.getUnanalyzed(limit): the oldest unanalyzed failures, at most
\* limit of them; the rows are numbered by age
RECURSIVE Oldest(_, _, _)
Oldest(f, limit, acc) ==
    IF f > NumFailures \/ Len(acc) >= limit THEN acc
    ELSE Oldest(f + 1, limit, IF failures[f].analyzed THEN acc ELSE Append(acc, f))

getUnanalyzed(limit) == Oldest(1, limit, <<>>)

\* the row generateTriageReport would insert for a failure
ReportRow(failureId) ==
    LET a == analyzeFailure(ContextOf(failureId), claude)
    IN  [failureId |-> failureId, category |-> a.category,
         confidence |-> a.confidence, bugProbability |-> a.bugProbability]

\* a call of generateForUnanalyzedFailures up to its loop
generateForUnanalyzedFailures ==
    /\ batch.pc = "idle"
    /\ LET selected == getUnanalyzed(batch.limit)
       IN  batch' = IF Len(selected) = 0 THEN batch
                    ELSE [batch EXCEPT !.pc = "loop", !.queue = selected]
    /\ UNCHANGED <<claude, failures, triage_reports, triage, healVars, pureVars>>

\* one iteration of the loop: generateTriageReport for the next selected
\* failure, with its exception caught ("Continue with other failures")
triageNext ==
    /\ batch.pc = "loop"
    /\ LET failureId == Head(batch.queue)
           row       == ReportRow(failureId)
       IN  IF findByFailureId(failureId) # 0
           THEN \* the existing report's id is returned; nothing is written
                UNCHANGED <<failures, triage_reports>>
           ELSE IF InsertAccepted(row)
           THEN /\ triage_reports' = Append(triage_reports, row)
                /\ failures' = [failures EXCEPT ![failureId].analyzed = TRUE]
           ELSE UNCHANGED <<failures, triage_reports>>
    /\ batch' = IF Len(batch.queue) = 1
                THEN [batch EXCEPT !.pc = "idle", !.queue = <<>>]
                ELSE [batch EXCEPT !.queue = Tail(batch.queue)]
    /\ UNCHANGED <<claude, triage, healVars, pureVars>>

IdleTriage ==
    /\ claude = ClaudeDown
    /\ failures = [f \in FailureIds |->
                      [errorMessage |-> <<>>, stackTrace |-> <<>>,
                       analyzed |-> FALSE]]
    /\ triage_reports = <<>>
    /\ triage = [t \in Triages |-> InitTriageReq]
    /\ batch = IdleBatch

\* ------------------------------------------- calculateHealingConfidence calls
\* params.strategy and params.locatorType are plain strings: the values the
\* switch statements name, and some they do not
Strategies == {"fallback_chain", "ai_suggested", "similarity_match", "manual"}
LocatorTypes == {"id", "accessibilityId", "xpath", "class", "css",
                 "androidUIAutomator"}

\* params.elementStability in hundredths, within [0, 1]
Stabilities == {0, 4, 5, 50, 85, 100}

ScorerInputs ==
    [strategy : Strategies, locatorType : LocatorTypes,
     previousFailures : 0..MaxPreviousFailures, elementStability : Stabilities]

ScorerFields == {"strategy", "locatorType", "previousFailures", "elementStability"}

Score(params) ==
    calculateHealingConfidence(params.strategy, params.locatorType,
                               params.previousFailures, params.elementStability)

NoCall ==
    [in |-> [strategy |-> "", locatorType |-> "", previousFailures |-> 0,
             elementStability |-> 0],
     out |-> 0]

IdleScorer == scorer = [calls |-> 0, first |-> NoCall, second |-> NoCall]

\* the two argument records differ in no field other than those of fields
SameExcept(x, y, fields) == \A f \in ScorerFields \ fields : x[f] = y[f]

\* a call of calculateHealingConfidence
scoreFirst ==
    /\ scorer.calls = 0
    /\ \E params \in ScorerInputs :
          scorer' = [scorer EXCEPT !.calls = 1,
                                   !.first = [in |-> params, out |-> Score(params)]]
    /\ UNCHANGED <<healVars, triageVars, analyzerCall>>

\* a later call whose arguments are those of the first, or differ in one field
scoreSecond ==
    /\ scorer.calls = 1
    /\ \E params \in ScorerInputs :
          /\ \E f \in ScorerFields : SameExcept(params, scorer.first.in, {f})
          /\ scorer' = [scorer EXCEPT !.calls = 2,
                                      !.second = [in |-> params,
                                                  out |-> Score(params)]]
    /\ UNCHANGED <<healVars, triageVars, analyzerCall>>

\* ------------------------------------------------------------ specification
InitLocators ==
    [el \in Elements |->
        [primary |-> IdUsername,
         fallbacks |-> <<XpUsername, AccUsername>>,
         healingHistory |-> <<>>]]

InitHeal ==
    [pc |-> "idle", elementPath |-> [page |-> "", element |-> ""],
     failedLocator |-> NoLocator, fallbackLocators |-> <<>>, screenshot |-> FALSE,
     attempt |-> NoResult, result |-> NoResult, outcome |-> "none",
     aiConsulted |-> FALSE]

InitReq == [pc |-> "idle", kind |-> "none", id |-> 0, resp |-> 0]

\* the healing service and its tables before any request
InitHealing ==
    /\ autoApplyThreshold \in Thresholds
    /\ oracle \in OracleResponses
    /\ locators = InitLocators
    /\ locator_changes = <<>>
    /\ heal = [p \in Heals |-> InitHeal]
    /\ req = [r \in Reqs |-> InitReq]

\* the healing service at rest, for the runs that make no healing request
IdleHealing ==
    /\ autoApplyThreshold = DefaultThreshold
    /\ oracle = OracleError
    /\ resolvable = AllLocators
    /\ locators = InitLocators
    /\ locator_changes = <<>>
    /\ heal = [p \in Heals |-> InitHeal]
    /\ req = [r \in Reqs |-> InitReq]

Init ==
    /\ InitHealing
    /\ resolvable = AllLocators
    /\ IdleTriage
    /\ IdleAnalyzer
    /\ IdleScorer

Next ==
    \/ \E p \in Heals : healLocator(p)
    \/ \E p \in Heals : recordHealingAttempt(p)
    \/ \E p \in Heals : healApply(p)
    \/ \E r \in Reqs : approveLocatorChange(r)
    \/ \E r \in Reqs : rejectLocatorChange(r)
    \/ \E r \in Reqs : approveChange(r)
    \/ \E r \in Reqs : approveApply(r)
    \/ \E r \in Reqs : rejectChange(r)

Spec == Init /\ [][Next]_vars

\* healLocator requests alone. No approve or reject step changes a heal record
\* or the number of rows, which is all a healLocator step reads of the table.
NextHeal ==
    \/ \E p \in Heals : healLocator(p)
    \/ \E p \in Heals : recordHealingAttempt(p)
    \/ \E p \in Heals : healApply(p)

\* ... against an app that resolves some, all or none of the locators
InitHealEnv ==
    /\ InitHealing
    /\ resolvable \in ResolvableSets
    /\ IdleTriage
    /\ IdleAnalyzer
    /\ IdleScorer

SpecHeal == InitHealEnv /\ [][NextHeal]_vars

\* ------------------------------------------------------------------ claims
Status(id) == locator_changes[id].status

\* the row a heal request has inserted (0: none)
ChangeOf(p) == heal[p].attempt.changeId

Returned(p) == heal[p].pc = "done" /\ heal[p].outcome = "returned"

\* the change is in force: created as auto_applied, or approved
Committed(id) == ChangeExists(id) /\ Status(id) \in {"auto_applied", "approved"}

\* applyLocatorChange has run on the change
Applied(id) == ChangeExists(id) /\ locator_changes[id].success = "true"

\* C1: when approve and reject race on the same PendingApproval change,
\* exactly one takes effect and the other gets an invalid-state error: an
\* approve and a reject of one change id never both answer 200.
C1_ExactlyOneWinner ==
    \A a, b \in Reqs :
        (/\ req[a].kind = "approve" /\ req[b].kind = "reject"
         /\ req[a].id = req[b].id)
        => ~(req[a].resp = 200 /\ req[b].resp = 200)

\* C2: two healLocator calls running concurrently for the same element path
\* never both commit: while both are still running, at most one of them has a
\* change in status AutoApplied or Approved.
C2_AtMostOneCommit ==
    \A p, q \in Heals :
        (/\ p # q /\ InFlight(p) /\ InFlight(q)
         /\ heal[p].elementPath = heal[q].elementPath)
        => ~(Committed(ChangeOf(p)) /\ Committed(ChangeOf(q)))

\* C3: once the status of a LocatorChange has left PendingApproval, no step of
\* create, approve, reject, markAutoApplied or applyLocatorChange makes it
\* PendingApproval again.
C3_NeverBackToPending ==
    [][\A id \in DOMAIN locator_changes :
          Status(id) # "pending_approval"
          => locator_changes'[id].status # "pending_approval"]_vars

\* a change that was created pending has been moved on by a completed request
C3_Witness ==
    \E r \in Reqs :
        /\ req[r].resp = 200
        /\ Status(req[r].id) # "pending_approval"

\* C4: approve or reject acting on a change whose current status is not
\* PendingApproval fails with an invalid-state error (400) and leaves the
\* record unchanged.
C4_NonPendingUntouched ==
    [][\A r \in Reqs :
          (/\ req[r].pc = "update"
           /\ req'[r] # req[r]
           /\ Status(req[r].id) # "pending_approval")
          => (locator_changes' = locator_changes /\ req'[r].resp = 400)]_vars

\* C5: Rejected is terminal: once a LocatorChange is Rejected, no later
\* operation changes its status.
C5_RejectedTerminal ==
    [][\A id \in DOMAIN locator_changes :
          Status(id) = "rejected" => locator_changes'[id].status = "rejected"]_vars

\* C6: after approve succeeds on a PendingApproval change, the change's status
\* is Approved and stays Approved, so getStatistics counts it under
\* manuallyApproved and not under autoApplied.
C6_ApprovedStaysApproved ==
    LET approved == {req[r].id : r \in {x \in Reqs : req[x].kind = "approve"
                                                     /\ req[x].resp = 200}}
    IN  /\ \A id \in approved : Status(id) = "approved"
        /\ getStatistics.manuallyApproved >= Cardinality(approved)

CommitsFor(el) ==
    {ChangeOf(p) : p \in {x \in Heals : /\ heal[x].elementPath = el
                                        /\ Applied(ChangeOf(x))}}

\* C8: when a healing change is committed, the element's locator definition is
\* mutated: the candidate becomes primary, the old primary goes to the head of
\* the fallbacks, and exactly one healing record is appended to the history.
C8_CommitMutatesLocators ==
    \A el \in Elements :
        /\ Len(locators[el].healingHistory) = Cardinality(CommitsFor(el))
        /\ \A id \in CommitsFor(el) :
              CommitsFor(el) = {id}
              => locators = updateLocatorsFile(InitLocators, el,
                                               locator_changes[id].newLocator,
                                               locator_changes[id].oldLocator)

\* Scenario A of the demo: no previous failure, element stability 0.85
ScenarioPreviousFailures == 0
ScenarioStability == 85

\* C9: the confidence healLocator records and compares against the threshold
\* is the scorer's score of the attempt; so a fallback-chain repair with an
\* xpath candidate, stability 0.85 and no previous failures, at threshold 85,
\* ends with the change AutoApplied.
C9_ConfidenceIsScore ==
    \A p \in Heals :
        (/\ Returned(p)
         /\ heal[p].result.strategy = "fallback_chain"
         /\ heal[p].result.newLocator.type = "xpath"
         /\ autoApplyThreshold = DefaultThreshold)
        => /\ 10 * heal[p].result.confidence =
                 calculateHealingConfidence("fallback_chain", "xpath",
                                            ScenarioPreviousFailures, ScenarioStability)
           /\ locator_changes[ChangeOf(p)].confidence = heal[p].result.confidence
           /\ healingStatus(heal[p].result.confidence, autoApplyThreshold) = "auto_applied"

\* the oracle would return at least one suggestion
OracleUsable == Len(suggestLocators(oracle)) > 0

\* C10: if a fallback locator would succeed and the AI oracle would also
\* return a usable suggestion, healLocator returns the fallback candidate with
\* strategy fallback_chain and the oracle is not consulted in that run.
C10_FallbackBeforeAI ==
    \A p \in Heals :
        (/\ heal[p].pc # "idle"
         /\ Len(heal[p].fallbackLocators) > 0
         /\ heal[p].screenshot
         /\ OracleUsable)
        => /\ ~heal[p].aiConsulted
           /\ heal[p].pc = "done"
              => /\ heal[p].outcome = "returned"
                 /\ heal[p].result.success
                 /\ heal[p].result.strategy = "fallback_chain"
                 /\ heal[p].result.newLocator = heal[p].fallbackLocators[1]

\* a request with fallbacks and a screenshot has returned while the oracle had
\* a suggestion to give
C10_Witness ==
    \E p \in Heals :
        /\ Returned(p)
        /\ Len(heal[p].fallbackLocators) > 0
        /\ heal[p].screenshot
        /\ OracleUsable
        /\ heal[p].result.strategy = "fallback_chain"

\* healWithFallbackChain of AI_TRIAGING_AND_FIXING.md: the index of the first
\* fallback from position i on that the app resolves (0: none)
RECURSIVE FirstResolvable(_, _)
FirstResolvable(fallbacks, i) ==
    IF i > Len(fallbacks) THEN 0
    ELSE IF fallbacks[i] \in resolvable THEN i
         ELSE FirstResolvable(fallbacks, i + 1)

\* C11: the fallback-chain stage selects the earliest fallback, in stored
\* order, that the app resolves, skipping the unresolvable ones; when none
\* resolves the stage fails and the attempt is not a fallback_chain one.
C11_EarliestResolvableFallback ==
    \A p \in Heals :
        (heal[p].pc # "idle" /\ Len(heal[p].fallbackLocators) > 0)
        => LET fb == heal[p].fallbackLocators
               i  == FirstResolvable(fb, 1)
           IN  IF i > 0
               THEN /\ heal[p].attempt.strategy = "fallback_chain"
                    /\ heal[p].attempt.newLocator = fb[i]
               ELSE heal[p].attempt.strategy # "fallback_chain"

\* analyzeFailure alone, over the contexts and the oracle answers
InitAnalyze ==
    /\ IdleHealing
    /\ IdleTriage
    /\ IdleAnalyzer
    /\ IdleScorer

NextAnalyze == analyzeFailureCall

SpecAnalyze == InitAnalyze /\ [][NextAnalyze]_vars

\* C12: for any FailureContext, when the oracle call fails, analyzeFailure
\* returns a result whose confidence is exactly 50 and whose category is a
\* member of the category set, never undefined, also when no rule matches.
C12_FallbackTotal ==
    (analyzerCall.pc = "done" /\ OracleCallFails(analyzerCall.response))
    => /\ analyzerCall.result.confidence = 50
       /\ analyzerCall.result.category \in FailureCategory

\* generateTriageReport requests over a table of failures
InitTriage ==
    /\ IdleHealing
    /\ claude \in TriageOracle
    /\ failures \in [FailureIds -> FailureRows]
    /\ triage_reports = <<>>
    /\ triage = [t \in Triages |-> InitTriageReq]
    /\ batch = IdleBatch
    /\ IdleAnalyzer
    /\ IdleScorer

NextTriage ==
    \/ \E t \in Triages : generateTriageReport(t)
    \/ \E t \in Triages : createReport(t)
    \/ \E t \in Triages : markAsAnalyzed(t)

SpecTriage == InitTriage /\ [][NextTriage]_vars

\* C13: every triage request (analyzeFailure, generateTriageReport) and every
\* healing request completes by returning a result value and never raises to
\* its caller, in particular when the oracle is down and no rule matches.
C13_NeverRaises ==
    \A t \in Triages : triage[t].pc = "done" => triage[t].outcome = "returned"

\* the oracle answered with a JSON object, which analyzeFailure went on to use
OracleAnswered == analyzerCall.pc = "done" /\ ~OracleCallFails(analyzerCall.response)

\* a field that normalizeAnalysis tests: the category is not a member of the
\* enum, the confidence is absent or outside [0,100], or the evidence or the
\* suggested actions are not an array
Malformed(a) ==
    \/ a.category \notin FailureCategory
    \/ a.confidence.kind # "number"
    \/ a.confidence.v < 0 \/ a.confidence.v > 100
    \/ ~a.evidencePoints.isArray
    \/ ~a.suggestedActions.isArray

\* "Apply rule-based fallback if confidence too low": below 70
LowConfidence == 70

\* C14: when the oracle returns a well-formed analysis whose confidence is
\* below 70, analyzeFailure discards it and returns the rule-based fallback
\* result, whose confidence is 50.
C14_LowConfidenceFallsBack ==
    (/\ OracleAnswered
     /\ ~Malformed(analyzerCall.response.json)
     /\ analyzerCall.response.json.confidence.v < LowConfidence)
    => /\ analyzerCall.result = getFallbackAnalysis(analyzerCall.context)
       /\ analyzerCall.result.confidence = 50

\* C15: when the oracle's parsed JSON has any malformed field, analyzeFailure
\* discards the whole response and returns the rule-based fallback result; it
\* never repairs the field by substituting a default or clamping.
C15_MalformedDiscarded ==
    (OracleAnswered /\ Malformed(analyzerCall.response.json))
    => analyzerCall.result = getFallbackAnalysis(analyzerCall.context)

\* calculateHealingConfidence alone, over its arguments
InitScore ==
    /\ IdleHealing
    /\ IdleTriage
    /\ IdleAnalyzer
    /\ IdleScorer

NextScore ==
    \/ scoreFirst
    \/ scoreSecond

SpecScore == InitScore /\ [][NextScore]_vars

\* C16: calculateHealingConfidence returns a value in [0,100] (0..1000 tenths)
\* for every strategy, locator type, previousFailures >= 0 and elementStability
\* in [0,1], and the same value when called again with identical arguments.
C16_ScoreInRange ==
    /\ scorer.calls >= 1 => scorer.first.out \in 0..1000
    /\ scorer.calls = 2
       => /\ scorer.second.out \in 0..1000
          /\ scorer.second.in = scorer.first.in
             => scorer.second.out = scorer.first.out

\* two calls with identical arguments whose unclamped sum exceeds 100
C16_Witness ==
    /\ scorer.calls = 2
    /\ scorer.second.in = scorer.first.in
    /\ scorer.first.in.strategy = "ai_suggested"
    /\ scorer.first.in.locatorType = "id"
    /\ scorer.first.in.elementStability = 100
    /\ scorer.first.out = 1000

\* C17: with strategy, locator type and previousFailures held fixed,
\* increasing elementStability never decreases the score.
C17_MonotoneInStability ==
    (/\ scorer.calls = 2
     /\ SameExcept(scorer.first.in, scorer.second.in, {"elementStability"})
     /\ scorer.first.in.elementStability <= scorer.second.in.elementStability)
    => scorer.first.out <= scorer.second.out

\* two calls that differ in elementStability alone, the second one higher
C17_Witness ==
    /\ scorer.calls = 2
    /\ SameExcept(scorer.first.in, scorer.second.in, {"elementStability"})
    /\ scorer.first.in.elementStability < scorer.second.in.elementStability
    /\ scorer.first.out < scorer.second.out

\* the demo's call: fallback_chain, an xpath fallback, no previous failure,
\* stability 0.85
ScenarioA ==
    [strategy |-> "fallback_chain", locatorType |-> "xpath",
     previousFailures |-> ScenarioPreviousFailures,
     elementStability |-> ScenarioStability]

\* C18: the stability contribution is round(elementStability * 10), so the
\* score is always an integer (a multiple of 10 tenths); for fallback_chain,
\* xpath, previousFailures 0 and elementStability 0.85 it is exactly 89.
C18_RoundedStability ==
    scorer.calls >= 1
    => /\ scorer.first.out % 10 = 0
       /\ scorer.first.in = ScenarioA => scorer.first.out = 890

\* "Previous Healing Attempts (-5 per previous failure)"
PenaltyPerFailure == 5

\* C19: each prior failed healing attempt lowers the score by exactly 5
\* before clamping: where no clamping occurs the score with previousFailures
\* = n is the score with previousFailures = 0 minus 5n; for the Scenario A
\* arguments with previousFailures = 3 the score is 74.
C19_FivePerFailure ==
    /\ (/\ scorer.calls = 2
         /\ SameExcept(scorer.first.in, scorer.second.in, {"previousFailures"})
         /\ scorer.first.in.previousFailures = 0
         /\ scorer.first.out < 1000
         /\ scorer.first.out
                > 10 * PenaltyPerFailure * scorer.second.in.previousFailures)
        => scorer.second.out =
              scorer.first.out
                 - 10 * PenaltyPerFailure * scorer.second.in.previousFailures
    /\ (/\ scorer.calls >= 1
         /\ scorer.first.in = [ScenarioA EXCEPT !.previousFailures = 3])
        => scorer.first.out = 740

\* the strategy and locator-type bonus tables of AI_TRIAGING_AND_FIXING.md
DocStrategyBonus(strategy) ==
    CASE strategy = "fallback_chain"   -> 25
      [] strategy = "ai_suggested"     -> 20
      [] strategy = "similarity_match" -> 15
      [] OTHER                         -> 0

DocLocatorTypeBonus(locatorType) ==
    CASE locatorType = "accessibilityId"    -> 15
      [] locatorType = "id"                 -> 12
      [] locatorType = "xpath"              -> 5
      [] locatorType = "css"                -> 5
      [] locatorType = "androidUIAutomator" -> 3
      [] OTHER                              -> 0

\* C20: the strategy bonus is +25 for fallback_chain, +20 for ai_suggested and
\* +15 for similarity_match, the locator-type bonus is +15 for accessibilityId,
\* +12 for id, +5 for xpath and css and +3 for androidUIAutomator; hence with
\* all other arguments equal a fallback_chain attempt never scores lower than
\* an ai_suggested one.
C20_BonusTables ==
    /\ scorer.calls >= 1
       => /\ StrategyBonus(scorer.first.in.strategy)
                = DocStrategyBonus(scorer.first.in.strategy)
          /\ LocatorTypeBonus(scorer.first.in.locatorType)
                = DocLocatorTypeBonus(scorer.first.in.locatorType)
    /\ (/\ scorer.calls = 2
         /\ SameExcept(scorer.first.in, scorer.second.in, {"strategy"})
         /\ scorer.first.in.strategy = "fallback_chain"
         /\ scorer.second.in.strategy = "ai_suggested")
        => scorer.first.out >= scorer.second.out

NoCandidate(h) ==
    /\ ~(Len(h.fallbackLocators) > 0 /\ tryFallbackChain(h.fallbackLocators).success)
    /\ ~(h.screenshot /\ tryAISuggestion(oracle).success)

\* C22: when no strategy yields a candidate (also when the oracle call
\* fails), healLocator returns success false, strategy none, confidence 0 and
\* no changeId without raising, creates no LocatorChange, modifies none, and
\* is not retried.
C22_NoViableRepair ==
    [][\A p \in Heals :
          /\ (heal[p].pc = "idle" /\ heal'[p].pc # "idle" /\ NoCandidate(heal'[p]))
             => /\ heal'[p].pc = "done"
                /\ heal'[p].outcome = "returned"
                /\ heal'[p].result.success = FALSE
                /\ heal'[p].result.strategy = "none"
                /\ heal'[p].result.confidence = 0
                /\ heal'[p].result.changeId = 0
                /\ heal'[p].attempt.changeId = 0
                /\ locator_changes' = locator_changes
          /\ (heal[p].pc = "done" /\ NoCandidate(heal[p]))
             => heal'[p] = heal[p]]_vars

\* a request with a screenshot and no fallback has returned while the oracle
\* call failed
C22_Witness ==
    \E p \in Heals :
        /\ Returned(p)
        /\ heal[p].screenshot
        /\ Len(heal[p].fallbackLocators) = 0
        /\ ~oracle.ok
        /\ heal[p].aiConsulted
        /\ heal[p].result.strategy = "none"

\* the rules, in the order of the source, that a lower-cased text matches
MatchedRules(text) ==
    {i \in 1..4 : IncludesAny(text, <<LocatorPhrases, TimeoutPhrases,
                                      NetworkPhrases, AssertionPhrases>>[i])}

RuleCategory ==
    <<"flaky_locator", "timing_issue", "environmental_issue", "actual_bug">>

C24_StackTraceMatched ==
    (/\ analyzerCall.pc = "done"
     /\ OracleCallFails(analyzerCall.response)
     /\ MatchedRules(toLowerCase(analyzerCall.context.errorMessage)) = {})
    => LET m == MatchedRules(toLowerCase(analyzerCall.context.stackTrace))
       IN  \A i \in m :
              (\A j \in m : i <= j)
              => analyzerCall.result.category = RuleCategory[i]

\* C25: the AI stage accepts its chosen (highest-confidence) suggestion only
\* after the app reports that it resolves; a suggestion that does not resolve
\* makes the stage fail instead of producing a LocatorChange.
C25_SuggestionVerified ==
    \A p \in Heals :
        (heal[p].pc # "idle" /\ heal[p].attempt.strategy = "ai_suggested")
        => heal[p].attempt.newLocator \in resolvable

\* C26: for any failure id at most one triage report is ever created, also
\* when generateTriageReport runs concurrently for the same failure: the later
\* caller returns the existing report's id instead of inserting a second one.
C26_OneReportPerFailure ==
    \A f \in FailureIds :
        Cardinality({id \in DOMAIN triage_reports :
                        triage_reports[id].failureId = f}) <= 1

\* a report the oldest failure already has while it is still flagged
\* unanalyzed: a generateTriageReport that stopped between its INSERT and
\* markAsAnalyzed
OrphanReport ==
    [failureId |-> 1, category |-> "flaky_locator", confidence |-> 95,
     bugProbability |-> 280]

\* generateForUnanalyzedFailures called again and again with one limit
InitBatch ==
    /\ IdleHealing
    /\ claude \in TriageOracle
    /\ failures \in [FailureIds -> FailureRows]
    /\ triage_reports \in {<<>>, <<OrphanReport>>}
    /\ triage = [t \in Triages |-> InitTriageReq]
    /\ batch \in {[IdleBatch EXCEPT !.limit = l] : l \in 1..NumFailures}
    /\ IdleAnalyzer
    /\ IdleScorer

NextBatch ==
    \/ generateForUnanalyzedFailures
    \/ triageNext

SpecBatch ==
    /\ InitBatch
    /\ [][NextBatch]_vars
    /\ WF_vars(generateForUnanalyzedFailures)
    /\ WF_vars(triageNext)

\* the INSERT of the failure's report would be accepted
CanSucceed(f) == InsertAccepted(ReportRow(f))

\* C27: repeated calls of generateForUnanalyzedFailures(limit) eventually
\* triage every unanalyzed failure whose analysis can succeed: failures whose
\* triage keeps failing, or that have a report and are still flagged
\* unanalyzed, do not starve newer failures.
C27_NoStarvation ==
    \A f \in FailureIds :
        (~failures[f].analyzed /\ CanSucceed(f)) ~> (findByFailureId(f) # 0)

\* C28: applyLocatorChange is executed at most once per change id: two
\* concurrent approve requests for the same PendingApproval change do not both
\* pass the status check and both apply; exactly one succeeds.
C28_AppliedOnce ==
    \A id \in DOMAIN locator_changes :
        Cardinality({r \in Reqs : /\ req[r].kind = "approve"
                                  /\ req[r].id = id
                                  /\ req[r].pc \in {"update", "apply", "done"}
                                  /\ req[r].resp \in {0, 200}}) <= 1

\* C29: in every reachable state a LocatorChange has appliedAt set if and
\* only if its status is Approved or AutoApplied.
C29_AppliedAtIffCommitted ==
    \A id \in DOMAIN locator_changes :
        locator_changes[id].appliedAt <=> Committed(id)

\* C30: every LocatorChange created by healLocator has a confidence in
\* [0,100]: a suggestion confidence outside that range is never stored as is,
\* nor compared unclamped against the auto-apply threshold.
C30_ConfidenceClamped ==
    /\ \A id \in DOMAIN locator_changes : ConfidenceCheck(locator_changes[id].confidence)
    /\ \A p \in Heals :
          heal[p].pc # "idle" => ConfidenceCheck(heal[p].attempt.confidence)

====
